---- MODULE Spec2Model ----
(***************************************************************************)
(* Model of kodi_addon_checker/check_artwork.py: one run of check_artwork  *)
(* over an addon tree.  Strings are TLA+ strings; TLC evaluates Len,       *)
(* SubSeq and \o on them, so path joining, extension splitting, substring  *)
(* tests and the scanner's regular expression are computed character by    *)
(* character as the Python code computes them.                             *)
(*                                                                         *)
(* The report is the sequence of Record values handed to report.add, in    *)
(* call order.  A Record is [severity, message, text, nums]: message is    *)
(* the format string of the source line, text the string arguments and     *)
(* nums the integer arguments of the % operator.                           *)
(***************************************************************************)
EXTENDS Integers, Sequences, FiniteSets, TLC

VARIABLES
    addon_path,    \* check_artwork argument: path of the addon folder
    parsed_xml,    \* the <assets> image nodes of addon.xml, document order
    file_index,    \* check_artwork argument: records {name, path}
    kodi_version,  \* check_artwork argument: release name
    fs,            \* the files on disk: absolute path -> image content
    report,        \* the Records added to the Report so far
    origin,        \* history: for each Record, the loop position that added it
    pc,            \* "assets" | "images" | "files" | "done"
    asset,         \* position of the loop of line 37 in art_assets
    fallback,      \* local of _check_image_type (line 56)
    images,        \* local of _check_image_type (line 56)
    idx            \* position of the loop of line 58 or of line 40

vars == <<addon_path, parsed_xml, file_index, kodi_version, fs, report,
          origin, pc, asset, fallback, images, idx>>

inputs == <<addon_path, parsed_xml, file_index, kodi_version, fs>>

(* Bounds *)

MaxDecl == 2

MaxFiles == 2

(* Strings *)

Char(s, i) == SubSeq(s, i, i)

StartsWith(s, p) == Len(p) <= Len(s) /\ SubSeq(s, 1, Len(p)) = p

EndsWith(s, p) == Len(p) <= Len(s) /\ SubSeq(s, Len(s) - Len(p) + 1, Len(s)) = p

\* Python's `p in s` on strings
Contains(s, p) ==
    \E i \in 1..(Len(s) - Len(p) + 1) : SubSeq(s, i, i + Len(p) - 1) = p

\* str.rfind, 1-based, 0 when absent
RFind(s, c) ==
    LET hits == {i \in 1..Len(s) : Char(s, i) = c}
    IN  IF hits = {} THEN 0 ELSE CHOOSE i \in hits : \A j \in hits : j <= i

\* posixpath.join of two components
Join(a, b) ==
    IF StartsWith(b, "/") THEN b
    ELSE IF a = "" \/ EndsWith(a, "/") THEN a \o b
    ELSE a \o "/" \o b

\* posixpath.splitext: <<root, ext>>; leading dots of the basename are no extension
Splitext(p) ==
    LET sepIndex == RFind(p, "/")
        dotIndex == RFind(p, ".")
    IN  IF dotIndex > sepIndex
           /\ \E k \in (sepIndex + 1)..(dotIndex - 1) : Char(p, k) # "."
        THEN <<SubSeq(p, 1, dotIndex - 1), SubSeq(p, dotIndex, Len(p))>>
        ELSE <<p, "">>

(* Records and the external collaborators *)

INFORMATION == "INFORMATION"
WARNING == "WARNING"
PROBLEM == "PROBLEM"

Record(severity, message, text, nums) ==
    [severity |-> severity, message |-> message, text |-> text, nums |-> nums]

\* KodiVersion: release names in release order; comparison is by position
KodiVersions ==
    <<"gotham", "helix", "isengard", "jarvis", "krypton", "leia", "matrix">>

KodiVersionRank(name) == CHOOSE i \in 1..Len(KodiVersions) : KodiVersions[i] = name

\* kodi_version >= KodiVersion(name)
VersionAtLeast(v, name) == KodiVersionRank(v) >= KodiVersionRank(name)

\* os.path.isfile
IsFile(filepath) == filepath \in DOMAIN fs

\* Image.open returns an image instead of raising IOError
ImageOpens(filepath) == filepath \in DOMAIN fs /\ fs[filepath].ok


(* The per-role checks, lines 114-244.  `im` is the opened image:          *)
(* has_transparency(im) is im.transparent, im.size is <<width, height>>.   *)

Opt(cond, record) == IF cond THEN <<record>> ELSE <<>>

\* _check_icon accepting 256x256 only
_check_icon_one_size(im, filepath, width, height) ==
    LET fileextension == Splitext(filepath)[2]
        icon_sizes == {<<256, 256>>}
    IN  Opt(fileextension # ".png",
            Record(PROBLEM, "Icon should be in the png format, provided icon is %s.",
                   <<fileextension>>, <<>>))
        \o Opt(im.transparent,
               Record(PROBLEM, "Icon should be solid. It has transparency.", <<>>, <<>>))
        \o (IF <<width, height>> \notin icon_sizes
            THEN <<Record(PROBLEM,
                          "Icon should have either 256x256 or 512x512 but it has %sx%s",
                          <<>>, <<width, height>>)>>
            ELSE <<Record(INFORMATION, "Icon dimensions are fine %sx%s",
                          <<>>, <<width, height>>)>>)

_check_icon(im, filepath, width, height) ==
    LET fileextension == Splitext(filepath)[2]
        icon_sizes == {<<256, 256>>, <<512, 512>>}
    IN  Opt(fileextension # ".png",
            Record(PROBLEM, "Icon should be in the png format, provided icon is %s.",
                   <<fileextension>>, <<>>))
        \o Opt(im.transparent,
               Record(PROBLEM, "Icon should be solid. It has transparency.", <<>>, <<>>))
        \o (IF <<width, height>> \notin icon_sizes
            THEN <<Record(PROBLEM,
                          "Icon should have either 256x256 or 512x512 but it has %sx%s",
                          <<>>, <<width, height>>)>>
            ELSE <<Record(INFORMATION, "Icon dimensions are fine %sx%s",
                          <<>>, <<width, height>>)>>)

_check_fanart(im, filepath, width, height) ==
    LET fileextension == Splitext(filepath)[2]
        fanart_sizes == {<<1280, 720>>, <<1920, 1080>>, <<3840, 2160>>}
        fanart_sizes_str == "1280x720 or 1920x1080 or 3840x2160"
    IN  Opt(fileextension \notin {".jpg", ".jpeg"},
            Record(PROBLEM, "Fanart should be in the jpeg format, provided fanart is %s.",
                   <<fileextension>>, <<>>))
        \o (IF <<width, height>> \notin fanart_sizes
            THEN <<Record(PROBLEM, "Fanart should have either %s but it has %sx%s",
                          <<fanart_sizes_str>>, <<width, height>>)>>
            ELSE <<Record(INFORMATION, "Fanart dimensions are fine %sx%s",
                          <<>>, <<width, height>>)>>)

_check_banner(im, filepath, width, height) ==
    LET fileextension == Splitext(filepath)[2]
        required_banner_size == <<1000, 185>>
    IN  Opt(fileextension \notin {".jpg", ".jpeg"},
            Record(PROBLEM, "Banner should be in the jpeg format, provided banner is %s.",
                   <<fileextension>>, <<>>))
        \o Opt(im.transparent,
               Record(PROBLEM, "Banner should be solid. It has transparency.", <<>>, <<>>))
        \o (IF <<width, height>> # required_banner_size
            THEN <<Record(PROBLEM, "Banner should have 1000x185 but it has %sx%s",
                          <<>>, <<width, height>>)>>
            ELSE <<Record(INFORMATION, "Banner dimensions are fine %sx%s",
                          <<>>, <<width, height>>)>>)

\* _check_clearlogo with the transparency test the wrong way round
_check_clearlogo_solid(im, filepath, width, height) ==
    LET fileextension == Splitext(filepath)[2]
        clearlogo_sizes == {<<400, 155>>, <<800, 310>>}
        clearlogo_sizes_str == "400x155 or 800x310"
    IN  Opt(fileextension # ".png",
            Record(PROBLEM,
                   "Clearlogo should be in the png format, provided clearlogo is %s.",
                   <<fileextension>>, <<>>))
        \o Opt(im.transparent,
               Record(PROBLEM, "Clearlogo should have transparency. It is solid.",
                      <<>>, <<>>))
        \o (IF <<width, height>> \notin clearlogo_sizes
            THEN <<Record(PROBLEM, "Clearlogo should have either %s but it has %sx%s",
                          <<clearlogo_sizes_str>>, <<width, height>>)>>
            ELSE <<Record(INFORMATION, "Clearlogo dimensions are fine %sx%s",
                          <<>>, <<width, height>>)>>)

_check_clearlogo(im, filepath, width, height) ==
    LET fileextension == Splitext(filepath)[2]
        clearlogo_sizes == {<<400, 155>>, <<800, 310>>}
        clearlogo_sizes_str == "400x155 or 800x310"
    IN  Opt(fileextension # ".png",
            Record(PROBLEM,
                   "Clearlogo should be in the png format, provided clearlogo is %s.",
                   <<fileextension>>, <<>>))
        \o Opt(~im.transparent,
               Record(PROBLEM, "Clearlogo should have transparency. It is solid.",
                      <<>>, <<>>))
        \o (IF <<width, height>> \notin clearlogo_sizes
            THEN <<Record(PROBLEM, "Clearlogo should have either %s but it has %sx%s",
                          <<clearlogo_sizes_str>>, <<width, height>>)>>
            ELSE <<Record(INFORMATION, "Clearlogo dimensions are fine %sx%s",
                          <<>>, <<width, height>>)>>)

_check_screenshot(im, filepath, width, height) ==
    LET filename == Splitext(filepath)[1]
        fileextension == Splitext(filepath)[2]
        screenshot_sizes == {<<1280, 720>>, <<1920, 1080>>}
        screenshot_sizes_str == "1280x720 or 1920x1080"
    IN  Opt(fileextension \notin {".jpg", ".jpeg"},
            Record(PROBLEM, "Screenshot should be in the jpeg format, %s is %s.",
                   <<filename, fileextension>>, <<>>))
        \o Opt(im.transparent,
               Record(PROBLEM, "Screenshot should be solid. %s has transparency.",
                      <<filename>>, <<>>))
        \o (IF <<width, height>> \notin screenshot_sizes
            THEN <<Record(PROBLEM, "Screenshot should have either %s but %s has %sx%s",
                          <<screenshot_sizes_str, filename>>, <<width, height>>)>>
            ELSE <<Record(INFORMATION, "Screenshot %s dimensions are fine %sx%s",
                          <<filename>>, <<width, height>>)>>)

\* art_assets with banner called before screenshot
art_assets_banner_first == <<"icon", "fanart", "banner", "screenshot", "clearlogo">>

\* art_assets, lines 29-35: the roles in call order ...
art_assets == <<"icon", "fanart", "screenshot", "banner", "clearlogo">>

\* ... and the callback paired with each role
image_check_cb(image_type, im, filepath, width, height) ==
    CASE image_type = "icon" -> _check_icon(im, filepath, width, height)
      [] image_type = "fanart" -> _check_fanart(im, filepath, width, height)
      [] image_type = "screenshot" -> _check_screenshot(im, filepath, width, height)
      [] image_type = "banner" -> _check_banner(im, filepath, width, height)
      [] image_type = "clearlogo" -> _check_clearlogo(im, filepath, width, height)

(* _assests, lines 93-111 *)

\* parsed_xml.findall("./extension/assets/" + image_type), then .text of each
FindallText(xml, image_type) ==
    LET IsType(node) == node.tag = image_type
        nodes == SelectSeq(xml, IsType)
    IN  [k \in 1..Len(nodes) |-> nodes[k].text]

skip_addon_types == {".module.", "metadata.", "context.", ".language."}

\* _assests without the test of the addon type
_assests_any_addon(image_type, xml, path) ==
    LET declared == FindallText(xml, image_type)
    IN  IF declared = <<>> /\ image_type = "icon"
        THEN <<TRUE, <<"icon.png">>>>
        ELSE IF declared = <<>> /\ image_type = "fanart"
        THEN <<TRUE, <<"fanart.jpg">>>>
        ELSE <<FALSE, declared>>

\* <<fallback, images>>
_assests(image_type, xml, path) ==
    LET declared == FindallText(xml, image_type)
    IN  IF declared = <<>> /\ image_type = "icon"
        THEN <<TRUE, <<"icon.png">>>>
        ELSE IF declared = <<>> /\ image_type = "fanart"
        THEN IF \E addon_type \in skip_addon_types : Contains(path, addon_type)
             THEN <<FALSE, <<>>>>
             ELSE <<TRUE, <<"fanart.jpg">>>>
        ELSE <<FALSE, declared>>

(* _check_image_type, lines 50-90 *)

\* lines 64-66 without the test of the release
ExplicitRecords_any_release(image_type, is_fallback) ==
    Opt(is_fallback,
        Record(PROBLEM, "Image %s should be explicitly declared in addon.xml <assets>.",
               <<image_type>>, <<>>))

\* lines 64-66: a conventional file is not enough from krypton on
ExplicitRecords(image_type, is_fallback) ==
    Opt(is_fallback /\ VersionAtLeast(kodi_version, "krypton"),
        Record(PROBLEM, "Image %s should be explicitly declared in addon.xml <assets>.",
               <<image_type>>, <<>>))

\* lines 67-76 with an IOError swallowed in silence
DecodeRecords_silent(image_type, filepath) ==
    IF ImageOpens(filepath)
    THEN image_check_cb(image_type, fs[filepath], filepath,
                        fs[filepath].width, fs[filepath].height)
    ELSE <<>>

\* lines 67-76: the image is opened and handed to the callback of the role
DecodeRecords(image_type, filepath) ==
    IF ImageOpens(filepath)
    THEN image_check_cb(image_type, fs[filepath], filepath,
                        fs[filepath].width, fs[filepath].height)
    ELSE <<Record(PROBLEM, "Could not open image, is the file corrupted? %s",
                  <<filepath>>, <<>>)>>

\* lines 78-87 with the two branches exchanged
MissingRecords_exchanged(image_type, is_fallback) ==
    IF ~is_fallback
    THEN <<Record(INFORMATION, "You might want to add a %s", <<image_type>>, <<>>)>>
    ELSE <<Record(PROBLEM, "%s does not exist at specified path.", <<image_type>>, <<>>)>>

\* lines 78-87: the file is missing
MissingRecords(image_type, is_fallback) ==
    IF is_fallback
    THEN <<Record(INFORMATION, "You might want to add a %s", <<image_type>>, <<>>)>>
    ELSE <<Record(PROBLEM, "%s does not exist at specified path.", <<image_type>>, <<>>)>>

\* lines 60-87: an image with a path
PathRecords(image_type, image, is_fallback) ==
    LET filepath == Join(addon_path, image)
    IN  IF IsFile(filepath)
        THEN <<Record(INFORMATION, "Image %s exists", <<image_type>>, <<>>)>>
             \o ExplicitRecords(image_type, is_fallback)
             \o DecodeRecords(image_type, filepath)
        ELSE MissingRecords(image_type, is_fallback)

\* lines 59-90 without the test of line 59
ImageRecords_no_test(image_type, image, is_fallback) ==
    PathRecords(image_type, image, is_fallback)

\* the Records of one pass of the loop body, lines 59-90
ImageRecords(image_type, image, is_fallback) ==
    IF image # ""
    THEN PathRecords(image_type, image, is_fallback)
    ELSE <<Record(WARNING, "Empty image tag found for %s", <<image_type>>, <<>>)>>

(* The loose-image scan, lines 40-47 *)

\* re.match(r"(?!fanart\.jpg|icon\.png).*\.(png|jpg|jpeg|gif)$", name) is not None
\* (names hold no newline)
ReMatch(name) ==
    /\ ~StartsWith(name, "fanart.jpg")
    /\ ~StartsWith(name, "icon.png")
    /\ \E ext \in {".png", ".jpg", ".jpeg", ".gif"} : EndsWith(name, ext)

\* the Records of one pass of the loop body, lines 41-47
FileRecords(file) ==
    LET image_path == Join(file.path, file.name)
    IN  IF ReMatch(file.name) /\ ~ImageOpens(image_path)
        THEN <<Record(PROBLEM, "Could not open image, is the file corrupted ? %s",
                      <<image_path>>, <<>>)>>
        ELSE <<>>

(* Inputs *)

Roles == {art_assets[k] : k \in 1..Len(art_assets)}

Image(w, h, t) == [ok |-> TRUE, width |-> w, height |-> h, transparent |-> t]

\* a file Image.open cannot read
Corrupt == [ok |-> FALSE, width |-> 0, height |-> 0, transparent |-> FALSE]

Sizes ==
    {<<256, 256>>, <<512, 512>>, <<1280, 720>>, <<1920, 1080>>, <<3840, 2160>>,
     <<1000, 185>>, <<400, 155>>, <<800, 310>>, <<300, 300>>, <<256, 512>>,
     <<720, 1280>>}

Images == {Image(s[1], s[2], t) : s \in Sizes, t \in BOOLEAN}

\* sequences of at most n elements of S
SeqUpTo(S, n) == UNION {[1..k -> S] : k \in 0..n}

\* sequences without repetition
Distinct(seq) == \A j, k \in 1..Len(seq) : j # k => seq[j] # seq[k]

DeclTexts == {"", "s.jpg"}

Manifests == SeqUpTo([tag : Roles, text : DeclTexts], MaxDecl)

\* the disk holding the files `names` (directly under `path`) with `content`
Disk(path, names, content) ==
    [p \in {Join(path, n) : n \in names} |->
        content[CHOOSE n \in names : Join(path, n) = p]]

\* the file index listing `order` under `path`
Index(path, order) == [k \in 1..Len(order) |-> [name |-> order[k], path |-> path]]

TreeOrder == <<"fanart.jpg", "icon.png", "s.jpg">>

ScanNames ==
    {"icon.png", "fanart.jpg", "extra.png", "a.jpg", "a.jpeg", "a.gif", "a.PNG",
     "readme.txt", "icon.png.gif", "myicon.png"}

ScanManifests ==
    {<<>>,
     <<[tag |-> "screenshot", text |-> ""], [tag |-> "screenshot", text |-> "s.jpg"]>>}

RuleNames == {"a.png", "a.jpg", "a.jpeg", "a.gif"}

AddonPaths ==
    {"plugin.x", "script.module.x", "metadata.x", "context.x", "a.language.x",
     "script.module", "Metadata.x", "context.d/plugin.x"}

Start ==
    /\ report = <<>>
    /\ origin = <<>>
    /\ pc = "assets"
    /\ asset = 1
    /\ fallback = FALSE
    /\ images = <<>>
    /\ idx = 1

\* declarations against a small tree
InitTree ==
    /\ addon_path = "plugin.x"
    /\ kodi_version = "krypton"
    /\ parsed_xml \in Manifests
    /\ \E present \in SUBSET {TreeOrder[k] : k \in 1..Len(TreeOrder)} :
         \E content \in [present -> {Corrupt, Image(256, 256, FALSE)}] :
            /\ fs = Disk(addon_path, present, content)
            /\ LET Present(n) == n \in present
               IN  file_index = Index(addon_path, SelectSeq(TreeOrder, Present))

\* one declared image of every role, extension and content
InitRules ==
    /\ addon_path = "plugin.x"
    /\ kodi_version = "leia"
    /\ \E role \in Roles, name \in RuleNames, im \in Images :
         /\ parsed_xml = <<[tag |-> role, text |-> name]>>
         /\ fs = Disk(addon_path, {name}, [n \in {name} |-> im])
         /\ file_index = Index(addon_path, <<name>>)

\* loose files of every kind of name
InitScan ==
    /\ addon_path = "plugin.x"
    /\ kodi_version = "leia"
    /\ parsed_xml \in ScanManifests
    /\ \E order \in SeqUpTo(ScanNames, MaxFiles) :
         /\ Distinct(order)
         /\ LET names == {order[k] : k \in 1..Len(order)}
            IN  \E content \in [names -> {Corrupt, Image(256, 256, FALSE)}] :
                   fs = Disk(addon_path, names, content)
         /\ file_index = Index(addon_path, order)

\* addon folders of every kind of name
InitPaths ==
    /\ addon_path \in AddonPaths
    /\ kodi_version = "krypton"
    /\ parsed_xml \in SeqUpTo([tag : Roles, text : DeclTexts], 1)
    /\ fs = <<>>
    /\ file_index = <<>>

\* the conventional files under every release
InitVersions ==
    /\ addon_path \in {"plugin.x", "metadata.x"}
    /\ kodi_version \in {KodiVersions[k] : k \in 1..Len(KodiVersions)}
    /\ parsed_xml = <<>>
    /\ \E present \in SUBSET {"icon.png", "fanart.jpg"} :
         \E content \in [present -> {Corrupt, Image(256, 256, FALSE)}] :
            /\ fs = Disk(addon_path, present, content)
            /\ LET Present(n) == n \in present
               IN  file_index = Index(addon_path, SelectSeq(TreeOrder, Present))

Init ==
    /\ InitTree \/ InitRules \/ InitScan \/ InitPaths \/ InitVersions
    /\ Start

(* Operations *)

Add(records, position) ==
    /\ report' = report \o records
    /\ origin' = origin \o [k \in 1..Len(records) |-> position]

\* line 37 then lines 53-58: the next asset is resolved and its loop entered
CheckImageType ==
    /\ pc = "assets"
    /\ asset <= Len(art_assets)
    /\ LET resolved == _assests(art_assets[asset], parsed_xml, addon_path)
       IN  /\ fallback' = resolved[1]
           /\ images' = resolved[2]
           /\ IF resolved[2] = <<>>
              THEN /\ asset' = asset + 1
                   /\ pc' = "assets"
              ELSE /\ asset' = asset
                   /\ pc' = "images"
    /\ idx' = 1
    /\ UNCHANGED <<inputs, report, origin>>

\* lines 58-90: one image of the asset
CheckImage ==
    /\ pc = "images"
    /\ Add(ImageRecords(art_assets[asset], images[idx], fallback),
           [phase |-> "assets", image_type |-> art_assets[asset], index |-> idx])
    /\ IF idx < Len(images)
       THEN /\ idx' = idx + 1
            /\ UNCHANGED <<pc, asset>>
       ELSE /\ idx' = 1
            /\ asset' = asset + 1
            /\ pc' = "assets"
    /\ UNCHANGED <<inputs, fallback, images>>

\* line 40: the loop over the assets is over, the loop over the files starts
ScanStart ==
    /\ pc = "assets"
    /\ asset > Len(art_assets)
    /\ pc' = "files"
    /\ idx' = 1
    /\ UNCHANGED <<inputs, report, origin, asset, fallback, images>>

\* lines 40-47: one file of the index
ScanFile ==
    /\ pc = "files"
    /\ idx <= Len(file_index)
    /\ Add(FileRecords(file_index[idx]),
           [phase |-> "files", image_type |-> "", index |-> idx])
    /\ idx' = idx + 1
    /\ UNCHANGED <<inputs, pc, asset, fallback, images>>

\* check_artwork returns
Return ==
    /\ pc = "files"
    /\ idx > Len(file_index)
    /\ pc' = "done"
    /\ UNCHANGED <<inputs, report, origin, asset, fallback, images, idx>>

Next == CheckImageType \/ CheckImage \/ ScanStart \/ ScanFile \/ Return

Spec == Init /\ [][Next]_vars

TypeOK ==
    /\ pc \in {"assets", "images", "files", "done"}
    /\ Len(origin) = Len(report)
    /\ asset \in 1..(Len(art_assets) + 1)

(* What the run has done so far *)

RoleIndex(role) == CHOOSE k \in 1..Len(art_assets) : art_assets[k] = role

\* the entries the resolver yields for a role, and its fallback flag
Entries(role) == _assests(role, parsed_xml, addon_path)[2]

IsFallback(role) == _assests(role, parsed_xml, addon_path)[1]

\* entry k of the role has been through the loop body of line 58
Processed(role, k) ==
    \/ RoleIndex(role) < asset
    \/ RoleIndex(role) = asset /\ pc = "images" /\ k < idx

\* file k of the index has been through the loop body of line 40
Scanned(k) == pc = "done" \/ (pc = "files" /\ k < idx)

\* the Records added at a loop position, in report order
RecordsAt(position) ==
    LET At(k) == origin[k] = position
        at == SelectSeq([k \in 1..Len(report) |-> k], At)
    IN  [j \in 1..Len(at) |-> report[at[j]]]

EntryAt(role, k) == [phase |-> "assets", image_type |-> role, index |-> k]

FileAt(k) == [phase |-> "files", image_type |-> "", index |-> k]

EntryRecords(role, k) == RecordsAt(EntryAt(role, k))

EntryPath(role, k) == Join(addon_path, Entries(role)[k])

\* every (role, entry) pair of the run
AllEntries ==
    UNION {{<<role, k>> : k \in 1..Len(Entries(role))} : role \in Roles}

ProcessedEntries == {e \in AllEntries : Processed(e[1], e[2])}

Messages(records) == {records[k].message : k \in 1..Len(records)}

CouldNotOpen ==
    {"Could not open image, is the file corrupted? %s",
     "Could not open image, is the file corrupted ? %s"}

FormatMessages ==
    {"Icon should be in the png format, provided icon is %s.",
     "Fanart should be in the jpeg format, provided fanart is %s.",
     "Banner should be in the jpeg format, provided banner is %s.",
     "Clearlogo should be in the png format, provided clearlogo is %s.",
     "Screenshot should be in the jpeg format, %s is %s."}

TransparencyMessages ==
    {"Icon should be solid. It has transparency.",
     "Banner should be solid. It has transparency.",
     "Clearlogo should have transparency. It is solid.",
     "Screenshot should be solid. %s has transparency."}

DimensionProblems ==
    {"Icon should have either 256x256 or 512x512 but it has %sx%s",
     "Fanart should have either %s but it has %sx%s",
     "Banner should have 1000x185 but it has %sx%s",
     "Clearlogo should have either %s but it has %sx%s",
     "Screenshot should have either %s but %s has %sx%s"}

DimensionFine ==
    {"Icon dimensions are fine %sx%s",
     "Fanart dimensions are fine %sx%s",
     "Banner dimensions are fine %sx%s",
     "Clearlogo dimensions are fine %sx%s",
     "Screenshot %s dimensions are fine %sx%s"}

\* the run is over and went through every asset, entry and file
RanToTheEnd ==
    /\ asset = Len(art_assets) + 1
    /\ idx = Len(file_index) + 1
    /\ \A e \in AllEntries : EntryRecords(e[1], e[2]) # <<>>

(* C1 *)

\* the role whose resolution `fallback` and `images` hold
LastResolved == IF pc = "images" THEN asset ELSE asset - 1

\* the resolution the manifest, the role and the addon path call for
Resolution(role) ==
    LET at == {k \in 1..Len(parsed_xml) : parsed_xml[k].tag = role}
        Nth(j) == CHOOSE k \in at : Cardinality({q \in at : q < k}) = j - 1
    IN  IF at # {}
        THEN <<FALSE, [j \in 1..Cardinality(at) |-> parsed_xml[Nth(j)].text]>>
        ELSE CASE role = "icon" -> <<TRUE, <<"icon.png">>>>
               [] role = "fanart" ->
                    IF \/ Contains(addon_path, ".module.")
                       \/ Contains(addon_path, "metadata.")
                       \/ Contains(addon_path, "context.")
                       \/ Contains(addon_path, ".language.")
                    THEN <<FALSE, <<>>>>
                    ELSE <<TRUE, <<"fanart.jpg">>>>
               [] OTHER -> <<FALSE, <<>>>>

\* C1: the resolver returns the declared entries in manifest order without
\* the fallback flag; with no declaration it returns icon.png (icon) or
\* fanart.jpg (fanart, unless the addon path holds .module., metadata.,
\* context. or .language.) with the flag, and nothing for any other role.
C1_Resolver ==
    LastResolved >= 1 =>
        /\ <<fallback, images>> = Resolution(art_assets[LastResolved])
        /\ art_assets[LastResolved]
             = <<"icon", "fanart", "screenshot", "banner", "clearlogo">>[LastResolved]

\* fanart of a context addon resolved to nothing, after the icon fell back
C1_Witness_Skip ==
    /\ LastResolved = 2
    /\ addon_path = "context.x"
    /\ parsed_xml = <<>>
    /\ <<fallback, images>> = <<FALSE, <<>>>>
    /\ report = <<Record(INFORMATION, "You might want to add a %s", <<"icon">>, <<>>)>>

(* C2 *)

\* C2: a non-empty entry whose file is missing gets exactly one Record, the
\* INFORMATION of a fallback or the PROBLEM of a declaration, and nothing
\* else; the INFORMATION never names screenshot, banner or clearlogo.
C2_Missing ==
    /\ \A e \in ProcessedEntries :
         LET role == e[1]
             image == Entries(role)[e[2]]
         IN  (image # "" /\ ~IsFile(EntryPath(role, e[2]))) =>
                EntryRecords(role, e[2]) =
                    IF IsFallback(role)
                    THEN <<Record(INFORMATION, "You might want to add a %s",
                                  <<role>>, <<>>)>>
                    ELSE <<Record(PROBLEM, "%s does not exist at specified path.",
                                  <<role>>, <<>>)>>
    /\ \A k \in 1..Len(report) :
         report[k].message = "You might want to add a %s" =>
            report[k].text[1] \notin {"screenshot", "banner", "clearlogo"}

\* a run that met a missing fallback and a missing declared file
C2_Witness_Both ==
    /\ \E k \in 1..Len(report) :
         report[k] = Record(INFORMATION, "You might want to add a %s", <<"icon">>, <<>>)
    /\ \E k \in 1..Len(report) :
         report[k] = Record(PROBLEM, "%s does not exist at specified path.",
                            <<"banner">>, <<>>)

(* C3 *)

ExistsRecord(role) == Record(INFORMATION, "Image %s exists", <<role>>, <<>>)

ExplicitRecord(role) ==
    Record(PROBLEM, "Image %s should be explicitly declared in addon.xml <assets>.",
           <<role>>, <<>>)

IsExplicitProblem(record) ==
    record.message = "Image %s should be explicitly declared in addon.xml <assets>."

\* C3: an entry whose file exists gets the INFORMATION "exists" first, and
\* the PROBLEM "should be explicitly declared" exactly when it is a fallback
\* and the release is krypton or later; the PROBLEM always comes right after
\* the INFORMATION of an existing fallback file.
C3_Explicit ==
    /\ \A e \in ProcessedEntries :
         LET role == e[1]
             records == EntryRecords(role, e[2])
             image == Entries(role)[e[2]]
             wanted == /\ IsFallback(role)
                       /\ kodi_version \in {"krypton", "leia", "matrix"}
         IN  IF image # "" /\ IsFile(EntryPath(role, e[2]))
             THEN /\ records # <<>>
                  /\ records[1] = ExistsRecord(role)
                  /\ wanted => Len(records) >= 2 /\ records[2] = ExplicitRecord(role)
                  /\ ~wanted => \A k \in 1..Len(records) : ~IsExplicitProblem(records[k])
                  /\ \A k \in 3..Len(records) : ~IsExplicitProblem(records[k])
             ELSE \A k \in 1..Len(records) : ~IsExplicitProblem(records[k])
    /\ \A k \in 1..Len(report) :
         IsExplicitProblem(report[k]) =>
            /\ origin[k].phase = "assets"
            /\ k > 1 /\ report[k - 1] = ExistsRecord(origin[k].image_type)
            /\ origin[k - 1] = origin[k]

\* an existing icon.png found by fallback under leia, reported both ways
C3_Witness_Gated ==
    /\ kodi_version = "leia"
    /\ Len(report) >= 2
    /\ report[1] = ExistsRecord("icon")
    /\ report[2] = ExplicitRecord("icon")


(* C4 *)

\* the entries whose file exists and opens as an image
DecodedEntries ==
    {e \in ProcessedEntries :
        /\ Entries(e[1])[e[2]] # ""
        /\ ImageOpens(EntryPath(e[1], e[2]))}

EntryImage(e) == fs[EntryPath(e[1], e[2])]

HasTransparencyProblem(records) ==
    \E k \in 1..Len(records) :
        records[k].severity = PROBLEM /\ records[k].message \in TransparencyMessages

\* a Record the callback of the role added
FromCheck(record) ==
    record.message \in FormatMessages \cup TransparencyMessages
                       \cup DimensionProblems \cup DimensionFine

\* C4 as stated: a transparency PROBLEM exactly for a transparent icon or
\* banner and for an opaque clearlogo; never for fanart or screenshot.
C4_AsStated ==
    \A e \in DecodedEntries :
        HasTransparencyProblem(EntryRecords(e[1], e[2])) <=>
            \/ e[1] \in {"icon", "banner"} /\ EntryImage(e).transparent
            \/ e[1] = "clearlogo" /\ ~EntryImage(e).transparent

\* C4: a transparency PROBLEM exactly for a transparent icon, banner or
\* screenshot and for an opaque clearlogo; the Records of a fanart image are
\* those of the same image with the transparency reversed.
C4_Transparency ==
    \A e \in DecodedEntries :
        LET records == EntryRecords(e[1], e[2])
            im == EntryImage(e)
            reversed == [im EXCEPT !.transparent = ~im.transparent]
        IN  /\ HasTransparencyProblem(records) <=>
                  \/ e[1] \in {"icon", "banner", "screenshot"} /\ im.transparent
                  \/ e[1] = "clearlogo" /\ ~im.transparent
            /\ e[1] = "fanart" =>
                  SelectSeq(records, FromCheck) =
                      _check_fanart(reversed, EntryPath(e[1], e[2]), im.width, im.height)

\* a transparent screenshot was flagged and the run went on
C4_Witness_Screenshot ==
    /\ pc = "done"
    /\ \E e \in DecodedEntries :
         /\ e[1] = "screenshot"
         /\ EntryImage(e).transparent
         /\ HasTransparencyProblem(EntryRecords(e[1], e[2]))

(* C5 *)

\* C5: the scanner opens the files named *.png, *.jpg, *.jpeg or *.gif other
\* than the two names fanart.jpg and icon.png, and no other file; a scanned
\* file that does not open gets exactly one PROBLEM, any other file nothing.
C5_Scanner ==
    \A k \in 1..Len(file_index) :
        Scanned(k) =>
            LET name == file_index[k].name
                image_path == Join(file_index[k].path, name)
                scanned == /\ \/ EndsWith(name, ".png") \/ EndsWith(name, ".jpg")
                              \/ EndsWith(name, ".jpeg") \/ EndsWith(name, ".gif")
                           /\ name \notin {"fanart.jpg", "icon.png"}
            IN  RecordsAt(FileAt(k)) =
                    IF scanned /\ ~ImageOpens(image_path)
                    THEN <<Record(PROBLEM,
                                  "Could not open image, is the file corrupted ? %s",
                                  <<image_path>>, <<>>)>>
                    ELSE <<>>

(* C6 *)

\* C6: no file the validator looked at for a role is opened by the scanner,
\* so no two "could not open image" PROBLEMs of a run name the same file.
C6_NoDoubleReport ==
    /\ \A e \in ProcessedEntries, k \in 1..Len(file_index) :
         (/\ Scanned(k)
          /\ Entries(e[1])[e[2]] # ""
          /\ IsFile(EntryPath(e[1], e[2]))
          /\ EntryPath(e[1], e[2]) = Join(file_index[k].path, file_index[k].name))
            => ~ReMatch(file_index[k].name)
    /\ \A j, k \in 1..Len(report) :
         (/\ origin[j].phase = "assets"
          /\ origin[k].phase = "files"
          /\ report[j].message \in CouldNotOpen
          /\ report[k].message \in CouldNotOpen)
            => report[j].text # report[k].text

(* C7 *)

\* C7: an entry whose file exists but does not open gets exactly one PROBLEM
\* "could not open image" and no format, transparency or dimension Record;
\* the run still goes through every later entry, role and file.
C7_DecodeFailure ==
    /\ \A e \in ProcessedEntries :
         LET records == EntryRecords(e[1], e[2])
             filepath == EntryPath(e[1], e[2])
         IN  (/\ Entries(e[1])[e[2]] # ""
              /\ IsFile(filepath)
              /\ ~ImageOpens(filepath)) =>
                /\ Cardinality({k \in 1..Len(records) :
                                   records[k].message \in CouldNotOpen}) = 1
                /\ records[Len(records)] =
                      Record(PROBLEM, "Could not open image, is the file corrupted? %s",
                             <<filepath>>, <<>>)
                /\ Messages(records) \cap (FormatMessages \cup TransparencyMessages
                                           \cup DimensionProblems \cup DimensionFine) = {}
    /\ pc = "done" => RanToTheEnd

\* a corrupt first screenshot, then a second screenshot, the remaining
\* roles and the scan
C7_Witness_Continues ==
    /\ pc = "done"
    /\ Len(Entries("screenshot")) = 2
    /\ Entries("screenshot")[1] = "s.jpg"
    /\ ~ImageOpens(EntryPath("screenshot", 1))
    /\ EntryRecords("screenshot", 1) =
          <<ExistsRecord("screenshot"),
            Record(PROBLEM, "Could not open image, is the file corrupted? %s",
                   <<"plugin.x/s.jpg">>, <<>>)>>
    /\ EntryRecords("screenshot", 2) # <<>>
    /\ RecordsAt(FileAt(Len(file_index))) # <<>>

(* C8 *)

\* where a loop position stands in the order icon, fanart, screenshot,
\* banner, clearlogo, entry by entry, and then the files of the index
Rank(position) ==
    IF position.phase = "assets"
    THEN <<1,
           CHOOSE k \in 1..5 :
               <<"icon", "fanart", "screenshot", "banner", "clearlogo">>[k]
                   = position.image_type,
           position.index>>
    ELSE <<2, 0, position.index>>

NotAfter(a, b) ==
    \/ a[1] < b[1]
    \/ a[1] = b[1] /\ a[2] < b[2]
    \/ a[1] = b[1] /\ a[2] = b[2] /\ a[3] <= b[3]

InOrder ==
    \A j, k \in 1..Len(origin) : j < k => NotAfter(Rank(origin[j]), Rank(origin[k]))

AppendOnly ==
    /\ Len(report') >= Len(report)
    /\ SubSeq(report', 1, Len(report)) = report

\* C8: the report only grows at its end, and its Records stand in role order
\* (icon, fanart, screenshot, banner, clearlogo), within a role in entry
\* order, and the scanner's Records after them in file-index order.
C8_Order == []InOrder /\ [][AppendOnly]_vars

\* Records of two roles, of two entries of one role and of two files
C8_Witness_Mixed ==
    /\ pc = "done"
    /\ EntryRecords("icon", 1) # <<>>
    /\ EntryRecords("screenshot", 1) # <<>>
    /\ EntryRecords("screenshot", 2) # <<>>
    /\ RecordsAt(FileAt(1)) # <<>>
    /\ RecordsAt(FileAt(2)) # <<>>

(* C9 *)

Accepted(role) ==
    CASE role = "icon" -> {<<256, 256>>, <<512, 512>>}
      [] role = "fanart" -> {<<1280, 720>>, <<1920, 1080>>, <<3840, 2160>>}
      [] role = "banner" -> {<<1000, 185>>}
      [] role = "clearlogo" -> {<<400, 155>>, <<800, 310>>}
      [] role = "screenshot" -> {<<1280, 720>>, <<1920, 1080>>}

\* C9: a decoded image gets exactly one dimension Record, an INFORMATION
\* when its size is one the role accepts and a PROBLEM otherwise, whatever
\* its extension and transparency.
C9_Dimensions ==
    \A e \in DecodedEntries :
        LET records == EntryRecords(e[1], e[2])
            im == EntryImage(e)
            dims == {k \in 1..Len(records) :
                        records[k].message \in DimensionProblems \cup DimensionFine}
        IN  /\ Cardinality(dims) = 1
            /\ \A k \in dims :
                 /\ records[k].nums = <<im.width, im.height>>
                 /\ IF <<im.width, im.height>> \in Accepted(e[1])
                    THEN /\ records[k].severity = INFORMATION
                         /\ records[k].message \in DimensionFine
                    ELSE /\ records[k].severity = PROBLEM
                         /\ records[k].message \in DimensionProblems

\* a transparent 300x300 icon named a.jpg: three PROBLEMs from one image
C9_Witness_Three ==
    EntryRecords("icon", 1) =
        <<ExistsRecord("icon"),
          Record(PROBLEM, "Icon should be in the png format, provided icon is %s.",
                 <<".jpg">>, <<>>),
          Record(PROBLEM, "Icon should be solid. It has transparency.", <<>>, <<>>),
          Record(PROBLEM, "Icon should have either 256x256 or 512x512 but it has %sx%s",
                 <<>>, <<300, 300>>)>>

(* C10 *)

\* C10: an empty entry gets exactly one WARNING and nothing else, and the
\* run goes on to the entries after it.
C10_EmptyTag ==
    /\ \A e \in ProcessedEntries :
         Entries(e[1])[e[2]] = "" =>
            EntryRecords(e[1], e[2]) =
                <<Record(WARNING, "Empty image tag found for %s", <<e[1]>>, <<>>)>>
    /\ pc = "done" => \A e \in AllEntries : EntryRecords(e[1], e[2]) # <<>>

\* an empty banner tag, then a banner whose file exists
C10_Witness_Next ==
    /\ Len(Entries("banner")) = 2
    /\ Entries("banner")[1] = ""
    /\ EntryRecords("banner", 1) =
          <<Record(WARNING, "Empty image tag found for %s", <<"banner">>, <<>>)>>
    /\ EntryRecords("banner", 2) # <<>>
    /\ EntryRecords("banner", 2)[1] = ExistsRecord("banner")
====
